---- MODULE Spec2Model ----
(***************************************************************************)
(* Model of did/plugins/phabricator.py: the Phabricator investigator       *)
(* (identity resolution, paginated Conduit queries, searches) and the      *)
(* three Stats classes built on it.  One step of the model is one HTTP     *)
(* round trip of _get_all_pages' loop, or the code that runs between two   *)
(* round trips (a call, a return into the caller, the filtering loop).     *)
(***************************************************************************)
EXTENDS Integers, Sequences, FiniteSets, TLC

\* ---------------------------------------------------------------- bounds
\* Largest number of pages the modelled server spreads one result set over.
MaxPages == 2
\* Largest number of records the modelled server holds for one query.
MaxRecords == 2
\* Offset of the process's local time from UTC, in seconds.
UtcOffset == 3600

\* ------------------------------------------------------ program constants
MAX_PAGE_SIZE == 100
\* Seconds per calendar day, as used by datetime.date.fromtimestamp.
DaySeconds == 86400

\* Python's None / JSON null, where the other values are strings.
NULL == "<None>"
\* An optional argument: <<>> is None, <<x>> is the value x.
None == <<>>
Some(x) == <<x>>

\* ------------------------------------------------------------ dict helpers
\* Keys of the form data are tuples: <<"limit">>, <<"constraints", family, i>>.
K(name) == <<name>>
Constraint(name) == <<"constraints", name>>
Indexed(family, i) == <<"constraints", family, i>>
EmptyDict == [k \in {} |-> NULL]
SetKey(d, k, v) == [x \in DOMAIN d \cup {k} |-> IF x = k THEN v ELSE d[x]]
\* Enumerated counting from one.
Enumerated_one_based(family, xs) ==
    [k \in {Indexed(family, i) : i \in 1..Len(xs)} |-> xs[k[3]]]
\* for idx, login in enumerate(xs): d[f'constraints[family][{idx}]'] = login
Enumerated(family, xs) ==
    [k \in {Indexed(family, i - 1) : i \in 1..Len(xs)} |-> xs[k[3] + 1]]
\* dict update: the entries of new override those of old
Update(old, new) == new @@ old

\* --------------------------------------------------------- configuration
ConfigUrl == "https://reviews.example/api"
ConfigToken == "api-TOKEN"
LoginLists == {<<"alice">>, <<"alice", "bob">>}
\* The window of the report, as calendar days (days since the epoch).
Since == 1
Until == 2
OptionsVerbose == FALSE

UserSearch == <<ConfigUrl, "/user.search">>
RevisionSearch == <<ConfigUrl, "/differential.revision.search">>
TransactionSearch == <<ConfigUrl, "/transaction.search">>
Endpoints == {UserSearch, RevisionSearch, TransactionSearch}

\* ------------------------------------------------------ the remote server
\* The users the server knows, by username.
UserOf == [alice |-> [phid |-> "PHID-USER-A"], bob |-> [phid |-> "PHID-USER-B"]]
\* user.search: the users among those the usernames constraints of the
\* request name, or among all users if it has none.
UserRecords(d) ==
    LET keys == {k \in DOMAIN d : Len(k) = 3 /\ k[2] = "usernames"}
    IN  IF keys = {} THEN {UserOf[n] : n \in DOMAIN UserOf}
        ELSE {UserOf[d[k]] : k \in keys}
RevisionRecords ==
    {[id |-> 1, phid |-> "PHID-DREV-1", fields |-> [title |-> "one", uri |-> "uri/D1"]],
     [id |-> 2, phid |-> "PHID-DREV-2", fields |-> [title |-> "two", uri |-> "uri/D2"]]}
\* Noon UTC of Until; 23:30 UTC of Until, which local time puts on the day
\* after Until.
OnUntil == Until * DaySeconds + DaySeconds \div 2
AfterUntil == (Until + 1) * DaySeconds - UtcOffset \div 2
TransactionRecords ==
    [type : {"comment", "inline", "close"}, dateModified : {OnUntil},
     authorPHID : {"PHID-USER-A"}]
    \cup [type : {"comment"}, dateModified : {AfterUntil},
          authorPHID : {"PHID-USER-A"}]
RecordsOf(u, d) ==
    IF u = UserSearch THEN UserRecords(d)
    ELSE IF u = RevisionSearch THEN RevisionRecords
    ELSE TransactionRecords

Range(s) == {s[i] : i \in 1..Len(s)}
\* The pages a server can answer with: at most n records of S, none twice
\* and none that an earlier page of the same fetch already held.
PagesOf(S, seen, n) ==
    {p \in UNION {[1..k -> S \ Range(seen)] : k \in 0..n} :
        \A i, j \in 1..Len(p) : p[i] = p[j] => i = j}

\* The cursor the server hands out with its n-th page, when more follow.
CursorTokens == <<"cursor-1", "cursor-2", "cursor-3", "cursor-4">>
ErrorTexts == {"ERR-CONDUIT-CORE"}
BadStatuses == {404, 500}

Json(ei, res, cur) ==
    (IF ei = None THEN <<>> ELSE "error_info" :> ei[1])
    @@ (IF res = None THEN <<>> ELSE "result" :> [data |-> res[1]])
    @@ (IF cur = None THEN <<>> ELSE "cursor" :> [after |-> cur[1]])
Http(status, body) == [kind |-> "http", status |-> status, body |-> body]
Parsed(json) == [parse |-> TRUE, json |-> json]
Unparseable == [parse |-> FALSE, json |-> <<>>]
TransportFailure == [kind |-> "transport", status |-> 0, body |-> Unparseable]

\* The records an answer carries.
ServedRecords(resp) ==
    IF resp.kind = "http" /\ resp.body.parse /\ "result" \in DOMAIN resp.body.json
    THEN resp.body.json["result"].data ELSE <<>>

\* A page with one record, if the server has one left, else an empty page.
SamplePage(S, seen, n) ==
    IF n > 0 /\ S \ Range(seen) # {}
    THEN <<CHOOSE r \in S \ Range(seen) : TRUE>> ELSE <<>>
\* Bodies used where the code never looks at the rest of the body.
SampleBodies(S, seen, n) ==
    {Unparseable, Parsed(Json(Some(NULL), Some(SamplePage(S, seen, n)), Some(NULL)))}
\* Every answer the server may give to the k-th request of a fetch that has
\* received the records seen so far; a further page may follow only while
\* k < MaxPages (the server's result set is finite).
Responses(S, seen, k) ==
    LET n == MaxRecords - Len(seen)
        curs == {None, Some(NULL)} \cup (IF k < MaxPages THEN {Some(CursorTokens[k])} ELSE {})
        some == {None, Some(SamplePage(S, seen, n))}
    IN  {TransportFailure}
        \cup {Http(s, b) : s \in BadStatuses, b \in SampleBodies(S, seen, n)}
        \cup {Http(200, Unparseable)}
        \cup {Http(200, Parsed(Json(None, r, Some(NULL)))) : r \in some}
        \cup {Http(200, Parsed(Json(Some(e), r, Some(NULL)))) : e \in ErrorTexts, r \in some}
        \cup {Http(200, Parsed(Json(Some(NULL), None, c))) : c \in curs}
        \cup {Http(200, Parsed(Json(Some(NULL), Some(p), c))) :
                p \in PagesOf(S, seen, n), c \in curs}

\* ------------------------------------------------------------ pure pieces
\* The decimal digits of a natural number, most significant first.
RECURSIVE Decimal(_)
Decimal(n) == IF n < 10 THEN <<n>> ELSE Append(Decimal(n \div 10), n % 10)
\* datetime.date.strftime("%s"): the epoch second of local midnight of the
\* day, as a decimal string.
strftime_s(day) == Decimal(day * DaySeconds - UtcOffset)
\* datetime.date.fromtimestamp: the local calendar day of an epoch second.
fromtimestamp(ts) == (ts + UtcOffset) \div DaySeconds

\* EventType
COMMENT == "comment"
INLINE == "inline"
CLOSE == "close"
UNDEFINED == ""
\* The values of the members of EventType.
EventType ==
    {"comment", "inline", "create", "close", "update", "summary", "title",
     "projects", "request-review", "reviewers", "subscribers", "status", ""}

\* Differential.__init__
Differential(data, verbose) ==
    [_data |-> data,
     str |-> IF verbose THEN <<data.fields.uri, " ", data.fields.title>>
             ELSE <<"D", data.id, " ", data.fields.title>>]
\* TransactionEvent.__init__
TransactionEvent(data) ==
    [_data |-> data, _type |-> data.type, _author_phid |-> data.authorPHID]

\* is_in_date_range with the day of until left out of the range.
is_in_date_range_exclusive(event, since, until) ==
    LET date_modified == fromtimestamp(event._data.dateModified)
    IN  IF since # None /\ ~(date_modified >= since[1]) THEN FALSE
        ELSE IF until # None /\ ~(date_modified < until[1]) THEN FALSE
        ELSE TRUE

\* TransactionEvent.is_in_date_range; since and until are optional days.
is_in_date_range(event, since, until) ==
    LET date_modified == fromtimestamp(event._data.dateModified)
    IN  IF since # None /\ ~(date_modified >= since[1]) THEN FALSE
        ELSE IF until # None /\ ~(date_modified <= until[1]) THEN FALSE
        ELSE TRUE

\* is_type without the case of an undefined type.
is_type_no_undefined(event, typ) == event._type = typ

\* TransactionEvent.is_type
is_type(event, typ) ==
    IF typ = UNDEFINED
    THEN event._type = NULL \/ event._type = ""
    ELSE event._type = typ

\* The dict login_phids builds from the configured logins.
login_phids_data(ls) == Enumerated("usernames", ls)
\* [user["phid"] for user in results]
phids_of(res) == [i \in 1..Len(res) |-> res[i].phid]

\* The dict search_diffs builds from its (optional) arguments.
search_diffs_data(since, until, author_phids, reviewer_phids) ==
    LET a == IF author_phids # None
             THEN Enumerated("authorPHIDs", author_phids[1]) ELSE EmptyDict
        r == IF reviewer_phids # None
             THEN Update(a, Enumerated("authorPHIDs", reviewer_phids[1])) ELSE a
        s == IF since # None
             THEN SetKey(r, Constraint("createdStart"), strftime_s(since[1])) ELSE r
    IN  IF until # None
        THEN SetKey(s, Constraint("createdEnd"), strftime_s(until[1])) ELSE s
\* What search_diffs makes of the records _get_all_pages returned.
search_diffs_result(res, verbose) ==
    [i \in 1..Len(res) |-> Differential(res[i], verbose)]

\* The dict search_transactions builds from its arguments.
search_transactions_data(diff_phid, author_phids) ==
    LET d == K("objectIdentifier") :> diff_phid
    IN  IF author_phids # None
        THEN Update(d, Enumerated("authorPHIDs", author_phids[1])) ELSE d
search_transactions_result(res) ==
    [i \in 1..Len(res) |-> TransactionEvent(res[i])]

\* The loop as it would be if a close event were taken for a comment.
RECURSIVE commented_events_close(_, _, _, _)
commented_events_close(diff, events, commented, closed) ==
    IF events = <<>> THEN [commented |-> commented, closed |-> closed]
    ELSE LET event == Head(events)
         IN  IF ~is_in_date_range(event, Some(Since), Some(Until))
             THEN commented_events_close(diff, Tail(events), commented, closed)
             ELSE commented_events_close(diff, Tail(events), Append(commented, diff), closed)

\* The inner loop of DifferentialsCommented.fetch over the events of one
\* diff: the two lists after it.
RECURSIVE commented_events(_, _, _, _)
commented_events(diff, events, commented, closed) ==
    IF events = <<>> THEN [commented |-> commented, closed |-> closed]
    ELSE LET event == Head(events)
         IN  IF ~is_in_date_range(event, Some(Since), Some(Until))
             THEN commented_events(diff, Tail(events), commented, closed)
             ELSE IF is_type(event, COMMENT) \/ is_type(event, INLINE)
             THEN commented_events(diff, Tail(events), Append(commented, diff), closed)
             ELSE IF is_type(event, CLOSE)
             THEN commented_events(diff, Tail(events), commented, Append(closed, diff))
             ELSE commented_events(diff, Tail(events), commented, closed)

\* ------------------------------------------------------------------ state
VARIABLES
    logins,          \* Phabricator.logins
    _login_phids,    \* Phabricator._login_phids
    op,              \* the public operation called last
    args,            \* its arguments
    pc,              \* where it stands
    url,             \* _get_all_pages: url
    data_dict,       \* _get_all_pages: data_dict
    results,         \* _get_all_pages: results
    fstate,          \* _get_all_pages: "none", "running" (in the loop), "returned"
    diffs,           \* DifferentialsCommented.fetch: diffs
    idx,             \* DifferentialsCommented.fetch: position of the for loop in diffs
    commented_diffs, \* DifferentialsCommented.fetch: commented_diffs
    closed_diffs,    \* DifferentialsCommented.fetch: closed_diffs
    stats,           \* the stats attribute of the three Stats objects
    fetched,         \* the Stats objects whose fetch() has been called
    outcome,         \* what the caller of the operation observes: "pending", "returned", "raised"
    ret,             \* the value it returned, if it returned
    error,           \* the exception it raised, if it raised
    lastReq,         \* the last call of requests.post: url and data
    received,        \* the records the server sent in the answers this call of _get_all_pages accepted, in order
    pageCount,       \* the number of those answers
    reqCount,        \* the calls of requests.post made by this call of _get_all_pages
    lastResp,        \* the server's answer to it
    resolved         \* TRUE once login_phids has stored the result of a resolution

vars == <<logins, _login_phids, op, args, pc, url, data_dict, results, fstate,
          diffs, idx, commented_diffs, closed_diffs, stats, fetched,
          outcome, ret, error, lastReq, received, pageCount, reqCount, lastResp, resolved>>

NoError == [type |-> "none", msg |-> <<>>]
Exception(type, msg) == [type |-> type, msg |-> msg]
NoRequest == [url |-> <<>>, data |-> EmptyDict]
NoResponse == [kind |-> "none", status |-> 0, body |-> Unparseable]
NoArgs == [none |-> TRUE]
Reports == {"commented", "created", "reviewed"}

\* ------------------------------------------------------------ _get_page
\* _get_page_data with the token left to the caller.
_get_page_data_no_token(d) ==
    IF K("limit") \notin DOMAIN d THEN SetKey(d, K("limit"), MAX_PAGE_SIZE) ELSE d

\* _get_page_data sending, once a cursor is at hand, the cursor alone.
_get_page_data_only_cursor(d) ==
    LET d0 == IF K("after") \in DOMAIN d /\ d[K("after")] # NULL
              THEN K("after") :> d[K("after")] ELSE d
        d1 == IF K("limit") \notin DOMAIN d0 THEN SetKey(d0, K("limit"), MAX_PAGE_SIZE) ELSE d0
    IN  IF K("api.token") \notin DOMAIN d1 THEN SetKey(d1, K("api.token"), ConfigToken) ELSE d1

\* The dict _get_page hands to requests.post: the caller's dict, with the
\* page size and the token added where the caller has none.
_get_page_data(d) ==
    LET d1 == IF K("limit") \notin DOMAIN d THEN SetKey(d, K("limit"), MAX_PAGE_SIZE) ELSE d
    IN  IF K("api.token") \notin DOMAIN d1 THEN SetKey(d1, K("api.token"), ConfigToken) ELSE d1

\* _get_page_result without the test of error_info.
_get_page_result_no_api_check(u, resp) ==
    IF resp.kind = "transport"
    THEN [raised |-> TRUE, decoded |-> <<>>,
          error |-> Exception("ReportError", <<"Phabricator search on ", u, " failed">>)]
    ELSE IF resp.status # 200
    THEN [raised |-> TRUE, decoded |-> <<>>,
          error |-> Exception("RuntimeError",
                        <<"Phabricator request exited with status code ", resp.status, " rather than 200.">>)]
    ELSE IF ~resp.body.parse
    THEN [raised |-> TRUE, decoded |-> <<>>,
          error |-> Exception("ReportError", <<"Phabricator failed to parse JSON response.">>)]
    ELSE [raised |-> FALSE, decoded |-> resp.body.json, error |-> NoError]

\* What _get_page does with the server's answer: [raised, error, decoded].
_get_page_result(u, resp) ==
    IF resp.kind = "transport"
    THEN [raised |-> TRUE, decoded |-> <<>>,
          error |-> Exception("ReportError", <<"Phabricator search on ", u, " failed">>)]
    ELSE IF resp.status # 200
    THEN [raised |-> TRUE, decoded |-> <<>>,
          error |-> Exception("RuntimeError",
                        <<"Phabricator request exited with status code ", resp.status, " rather than 200.">>)]
    ELSE IF ~resp.body.parse
    THEN [raised |-> TRUE, decoded |-> <<>>,
          error |-> Exception("ReportError", <<"Phabricator failed to parse JSON response.">>)]
    ELSE IF "error_info" \notin DOMAIN resp.body.json
    THEN [raised |-> TRUE, decoded |-> <<>>,
          error |-> Exception("KeyError", <<"error_info">>)]
    ELSE IF resp.body.json["error_info"] # NULL
    THEN [raised |-> TRUE, decoded |-> <<>>,
          error |-> Exception("RuntimeError",
                        <<"Phabricator error encountered: ", resp.body.json["error_info"]>>)]
    ELSE [raised |-> FALSE, decoded |-> resp.body.json, error |-> NoError]

\* ------------------------------------------------------- _get_all_pages
\* _get_all_pages_step keeping only the records of the page at hand.
_get_all_pages_step_replace(res, got, after) ==
    IF got.raised
    THEN [raised |-> TRUE, error |-> got.error, results |-> res, after |-> after, break |-> TRUE]
    ELSE IF "result" \notin DOMAIN got.decoded
    THEN [raised |-> TRUE, results |-> res, after |-> after, break |-> TRUE,
          error |-> Exception("ReportError", <<"Mising key Phabricator dict: result">>)]
    ELSE LET ext == got.decoded["result"].data
         IN  IF "cursor" \in DOMAIN got.decoded
             THEN [raised |-> FALSE, error |-> NoError, results |-> ext,
                   after |-> got.decoded["cursor"].after,
                   break |-> got.decoded["cursor"].after = NULL]
             ELSE [raised |-> FALSE, error |-> NoError, results |-> ext,
                   after |-> after, break |-> TRUE]
\* _get_all_pages_step going round again on a body without cursor.
_get_all_pages_step_no_break(res, got, after) ==
    IF got.raised
    THEN [raised |-> TRUE, error |-> got.error, results |-> res, after |-> after, break |-> TRUE]
    ELSE IF "result" \notin DOMAIN got.decoded
    THEN [raised |-> TRUE, results |-> res, after |-> after, break |-> TRUE,
          error |-> Exception("ReportError", <<"Mising key Phabricator dict: result">>)]
    ELSE LET ext == res \o got.decoded["result"].data
         IN  IF "cursor" \in DOMAIN got.decoded
             THEN [raised |-> FALSE, error |-> NoError, results |-> ext,
                   after |-> got.decoded["cursor"].after,
                   break |-> got.decoded["cursor"].after = NULL]
             ELSE [raised |-> FALSE, error |-> NoError, results |-> ext,
                   after |-> after, break |-> FALSE]
\* _get_all_pages_step taking a body without result for the end of the list.
_get_all_pages_step_no_result_check(res, got, after) ==
    IF got.raised
    THEN [raised |-> TRUE, error |-> got.error, results |-> res, after |-> after, break |-> TRUE]
    ELSE IF "result" \notin DOMAIN got.decoded
    THEN [raised |-> FALSE, error |-> NoError, results |-> res, after |-> after, break |-> TRUE]
    ELSE LET ext == res \o got.decoded["result"].data
         IN  IF "cursor" \in DOMAIN got.decoded
             THEN [raised |-> FALSE, error |-> NoError, results |-> ext,
                   after |-> got.decoded["cursor"].after,
                   break |-> got.decoded["cursor"].after = NULL]
             ELSE [raised |-> FALSE, error |-> NoError, results |-> ext,
                   after |-> after, break |-> TRUE]
\* _get_all_pages_step catching _get_page's exception and returning what
\* it has.
_get_all_pages_step_partial(res, got, after) ==
    IF got.raised
    THEN [raised |-> FALSE, error |-> NoError, results |-> res, after |-> after, break |-> TRUE]
    ELSE IF "result" \notin DOMAIN got.decoded
    THEN [raised |-> TRUE, results |-> res, after |-> after, break |-> TRUE,
          error |-> Exception("ReportError", <<"Mising key Phabricator dict: result">>)]
    ELSE LET ext == res \o got.decoded["result"].data
         IN  IF "cursor" \in DOMAIN got.decoded
             THEN [raised |-> FALSE, error |-> NoError, results |-> ext,
                   after |-> got.decoded["cursor"].after,
                   break |-> got.decoded["cursor"].after = NULL]
             ELSE [raised |-> FALSE, error |-> NoError, results |-> ext,
                   after |-> after, break |-> TRUE]

\* One pass through the body of the while loop, given _get_page's outcome:
\* [raised, error, results, after, break].
_get_all_pages_step(res, got, after) ==
    IF got.raised
    THEN [raised |-> TRUE, error |-> got.error, results |-> res, after |-> after, break |-> TRUE]
    ELSE IF "result" \notin DOMAIN got.decoded
    THEN [raised |-> TRUE, results |-> res, after |-> after, break |-> TRUE,
          error |-> Exception("ReportError", <<"Mising key Phabricator dict: result">>)]
    ELSE LET ext == res \o got.decoded["result"].data
         IN  IF "cursor" \in DOMAIN got.decoded
             THEN [raised |-> FALSE, error |-> NoError, results |-> ext,
                   after |-> got.decoded["cursor"].after,
                   break |-> got.decoded["cursor"].after = NULL]
             ELSE [raised |-> FALSE, error |-> NoError, results |-> ext,
                   after |-> after, break |-> TRUE]

\* ----------------------------------------------------- calls and returns
\* The locals of every frame, as they are when no frame is live.
ResetFrames ==
    /\ url' = <<>>
    /\ data_dict' = EmptyDict
    /\ results' = <<>>
    /\ fstate' = "none"
    /\ diffs' = <<>>
    /\ idx' = 0
    /\ commented_diffs' = <<>>
    /\ closed_diffs' = <<>>

\* The operation in progress returns r to its caller.
Return(r) ==
    /\ pc' = "none"
    /\ outcome' = "returned" /\ ret' = Some(r) /\ error' = NoError
    /\ ResetFrames

\* The operation in progress ends with the exception e: every frame unwinds.
Raise(e) ==
    /\ pc' = "none"
    /\ outcome' = "raised" /\ ret' = None /\ error' = e
    /\ ResetFrames

\* No operation is in progress and none has raised: nothing in the plugin
\* catches an exception of the investigator, the run ends with it.
Callable == outcome \in {"none", "returned"}

\* A public operation o is called with arguments a.
Called(o, a) ==
    /\ Callable
    /\ op' = o /\ args' = a
    /\ lastReq' = NoRequest
    /\ lastResp' = NoResponse

\* The operation does not end in the step that calls it.
Pending == outcome' = "pending" /\ ret' = None /\ error' = NoError

\* Call_get_all_pages keeping an after the caller's dict holds.
Call_get_all_pages_keep_after(u, d) ==
    /\ url' = u
    /\ data_dict' = IF d # None /\ K("after") \in DOMAIN d[1] THEN d[1]
                    ELSE SetKey(IF d = None THEN EmptyDict ELSE d[1], K("after"), NULL)
    /\ results' = <<>>
    /\ fstate' = "running"
    /\ received' = <<>>
    /\ pageCount' = 0
    /\ reqCount' = 0
    /\ lastReq' = NoRequest
    /\ lastResp' = NoResponse

\* The call _get_all_pages(u, d) up to the head of its loop; d = None stands
\* for the argument None.
Call_get_all_pages(u, d) ==
    /\ url' = u
    /\ data_dict' = SetKey(IF d = None THEN EmptyDict ELSE d[1], K("after"), NULL)
    /\ results' = <<>>
    /\ fstate' = "running"
    /\ received' = <<>>
    /\ pageCount' = 0
    /\ reqCount' = 0
    /\ lastReq' = NoRequest
    /\ lastResp' = NoResponse

\* One iteration of the loop of _get_all_pages: _get_page posts the request,
\* the server answers, the body is checked and its records are appended.
GetPage ==
    /\ fstate = "running"
    /\ \E resp \in Responses(RecordsOf(url, data_dict), results, reqCount + 1) :
        LET sent == _get_page_data(data_dict)
            got == _get_page_result(url, resp)
            step == _get_all_pages_step(results, got, sent[K("after")])
        IN  /\ lastReq' = [url |-> url, data |-> sent]
            /\ lastResp' = resp
            /\ reqCount' = reqCount + 1
            /\ IF step.raised
               THEN /\ Raise(step.error)
                    /\ UNCHANGED <<op, args, received, pageCount>>
               ELSE /\ results' = step.results
                    /\ data_dict' = SetKey(sent, K("after"), step.after)
                    /\ fstate' = IF step.break THEN "returned" ELSE "running"
                    /\ received' = received \o ServedRecords(resp)
                    /\ pageCount' = pageCount + 1
                    /\ UNCHANGED <<op, args, pc, url, outcome, ret, error,
                                   diffs, idx, commented_diffs, closed_diffs>>
    /\ UNCHANGED <<logins, _login_phids, stats, fetched, resolved>>

\* ----------------------------------------------- direct use of the engine
\* The endpoints and dicts the engine is called with directly.
CallerUrls == {UserSearch, RevisionSearch}
CallerDicts ==
    {None, Some(EmptyDict),
     Some(K("limit") :> 50),
     Some(K("limit") :> 2 * MAX_PAGE_SIZE),
     Some(K("api.token") :> "other-TOKEN"),
     Some(K("after") :> "cursor-9")}

\* Phabricator._get_all_pages(url, data_dict) called on its own.
get_all_pages_call ==
    /\ fetched = {}
    /\ \E u \in CallerUrls, d \in CallerDicts :
        /\ Called("_get_all_pages", [url |-> u, data_dict |-> d])
        /\ Call_get_all_pages(u, d)
    /\ Pending
    /\ pc' = "_get_all_pages"
    /\ UNCHANGED <<logins, _login_phids, diffs, idx, commented_diffs,
                   closed_diffs, stats, fetched, resolved>>

get_all_pages_return ==
    /\ pc = "_get_all_pages" /\ fstate = "returned"
    /\ Return(results)
    /\ UNCHANGED <<logins, _login_phids, op, args, stats, fetched, lastReq, received, pageCount,
                   reqCount, resolved, lastResp>>

\* ------------------------------------------------------------ login_phids
\* The test of the property: is a stored list returned as it is?
Cached == ~(_login_phids = <<>>)

\* A read of Phabricator.login_phids on its own.
login_phids_call ==
    /\ fetched = {}
    /\ Called("login_phids", NoArgs)
    /\ IF Cached
       THEN /\ Return(_login_phids)
            /\ UNCHANGED <<received, pageCount, reqCount>>
       ELSE /\ Pending
            /\ Call_get_all_pages(UserSearch, Some(login_phids_data(logins)))
            /\ pc' = "login_phids"
            /\ UNCHANGED <<diffs, idx, commented_diffs, closed_diffs>>
    /\ UNCHANGED <<logins, _login_phids, stats, fetched, resolved>>

login_phids_return ==
    /\ pc = "login_phids" /\ fstate = "returned"
    /\ _login_phids' = phids_of(results)
    /\ resolved' = TRUE
    /\ Return(_login_phids')
    /\ UNCHANGED <<logins, op, args, stats, fetched, lastReq, received, pageCount, reqCount, lastResp>>

\* ----------------------------------------------------------- search_diffs
PhidLists == {<<"PHID-USER-A">>, <<"PHID-USER-A", "PHID-USER-B">>}
SearchDiffsArgs ==
    [verbose : {FALSE}, since : {Some(Since)}, until : {Some(Until)},
     author_phids : {Some(p) : p \in PhidLists}, reviewer_phids : {None}]
    \cup [verbose : {FALSE}, since : {Some(Since)}, until : {Some(Until)},
          author_phids : {None}, reviewer_phids : {Some(p) : p \in PhidLists}]
    \cup [verbose : {TRUE}, since : {None, Some(Since)}, until : {None, Some(Until)},
          author_phids : {Some(<<>>)}, reviewer_phids : {None}]

\* Phabricator.search_diffs called on its own.
search_diffs_call ==
    /\ fetched = {}
    /\ \E a \in SearchDiffsArgs :
        /\ Called("search_diffs", a)
        /\ Call_get_all_pages(RevisionSearch,
               Some(search_diffs_data(a.since, a.until, a.author_phids, a.reviewer_phids)))
    /\ Pending
    /\ pc' = "search_diffs"
    /\ UNCHANGED <<logins, _login_phids, diffs, idx, commented_diffs,
                   closed_diffs, stats, fetched, resolved>>

search_diffs_return ==
    /\ pc = "search_diffs" /\ fstate = "returned"
    /\ Return(search_diffs_result(results, args.verbose))
    /\ UNCHANGED <<logins, _login_phids, op, args, stats, fetched, lastReq, received, pageCount,
                   reqCount, resolved, lastResp>>

\* ---------------------------------------------------- search_transactions
SearchTransactionsArgs ==
    [diff_phid : {"PHID-DREV-1"}, author_phids : {None, Some(<<"PHID-USER-A", "PHID-USER-B">>)}]

\* Phabricator.search_transactions called on its own.
search_transactions_call ==
    /\ fetched = {}
    /\ \E a \in SearchTransactionsArgs :
        /\ Called("search_transactions", a)
        /\ Call_get_all_pages(TransactionSearch,
               Some(search_transactions_data(a.diff_phid, a.author_phids)))
    /\ Pending
    /\ pc' = "search_transactions"
    /\ UNCHANGED <<logins, _login_phids, diffs, idx, commented_diffs,
                   closed_diffs, stats, fetched, resolved>>

search_transactions_return ==
    /\ pc = "search_transactions" /\ fstate = "returned"
    /\ Return(search_transactions_result(results))
    /\ UNCHANGED <<logins, _login_phids, op, args, stats, fetched, lastReq, received, pageCount,
                   reqCount, resolved, lastResp>>

\* ------------------------------------------------- DifferentialsCommented
\* Differential.phid
phid(diff) == diff._data.phid

\* The head of `for diff in diffs`, about to take the i-th diff, with the
\* two lists as they stand: the loop is over and stats is set, or
\* login_phids is read and search_transactions called.
CommentedLoop(ds, i, commented, closed) ==
    IF i > Len(ds)
    THEN /\ stats' = [stats EXCEPT !["commented"] = commented]
         /\ Return(NULL)
         /\ UNCHANGED <<received, pageCount, reqCount, lastReq, lastResp>>
    ELSE /\ diffs' = ds /\ idx' = i
         /\ commented_diffs' = commented /\ closed_diffs' = closed
         /\ IF Cached
            THEN /\ Call_get_all_pages(TransactionSearch,
                        Some(search_transactions_data(phid(ds[i]), Some(_login_phids))))
                 /\ pc' = "commented_search_transactions"
            ELSE /\ Call_get_all_pages(UserSearch, Some(login_phids_data(logins)))
                 /\ pc' = "commented_login_phids_2"
         /\ UNCHANGED <<outcome, ret, error, stats>>

\* PhabricatorStats.stats lists the three Stats objects in this order, and
\* the reports are fetched in the order of the list, each at most once.
StatsOrder == <<"commented", "created", "reviewed">>
MayFetch(r) ==
    \A i, j \in 1..Len(StatsOrder) :
        StatsOrder[i] = r /\ StatsOrder[j] \in fetched => j < i

\* DifferentialsCommented.fetch is called: login_phids is read for the
\* argument of search_diffs.
DifferentialsCommented_fetch ==
    /\ MayFetch("commented")
    /\ fetched' = fetched \cup {"commented"}
    /\ Called("DifferentialsCommented.fetch", NoArgs)
    /\ Pending
    /\ IF Cached
       THEN /\ Call_get_all_pages(RevisionSearch,
                   Some(search_diffs_data(Some(Since), Some(Until), Some(_login_phids), None)))
            /\ pc' = "commented_search_diffs"
       ELSE /\ Call_get_all_pages(UserSearch, Some(login_phids_data(logins)))
            /\ pc' = "commented_login_phids_1"
    /\ UNCHANGED <<logins, _login_phids, diffs, idx, commented_diffs,
                   closed_diffs, stats, resolved>>

\* login_phids returns into the call of search_diffs.
commented_login_phids_1_return ==
    /\ pc = "commented_login_phids_1" /\ fstate = "returned"
    /\ _login_phids' = phids_of(results)
    /\ resolved' = TRUE
    /\ Call_get_all_pages(RevisionSearch,
           Some(search_diffs_data(Some(Since), Some(Until), Some(_login_phids'), None)))
    /\ pc' = "commented_search_diffs"
    /\ UNCHANGED <<logins, op, args, diffs, idx, commented_diffs, closed_diffs,
                   stats, fetched, outcome, ret, error>>

\* search_diffs returns the diffs; the loop over them begins.
commented_search_diffs_return ==
    /\ pc = "commented_search_diffs" /\ fstate = "returned"
    /\ CommentedLoop(search_diffs_result(results, OptionsVerbose), 1, <<>>, <<>>)
    /\ UNCHANGED <<logins, _login_phids, op, args, fetched, resolved>>

\* login_phids returns into the call of search_transactions.
commented_login_phids_2_return ==
    /\ pc = "commented_login_phids_2" /\ fstate = "returned"
    /\ _login_phids' = phids_of(results)
    /\ resolved' = TRUE
    /\ Call_get_all_pages(TransactionSearch,
           Some(search_transactions_data(phid(diffs[idx]), Some(_login_phids'))))
    /\ pc' = "commented_search_transactions"
    /\ UNCHANGED <<logins, op, args, diffs, idx, commented_diffs, closed_diffs,
                   stats, fetched, outcome, ret, error>>

\* search_transactions returns the events of the diff; they are filtered
\* and the loop goes on to the next diff.
commented_search_transactions_return ==
    /\ pc = "commented_search_transactions" /\ fstate = "returned"
    /\ LET after == commented_events(diffs[idx], search_transactions_result(results),
                                     commented_diffs, closed_diffs)
       IN  CommentedLoop(diffs, idx + 1, after.commented, after.closed)
    /\ UNCHANGED <<logins, _login_phids, op, args, fetched, resolved>>

\* ------------------------------- DifferentialsCreated, DifferentialsReviewed
\* The dict DifferentialsCreated.fetch builds.
created_data(phids) ==
    SetKey(SetKey(Enumerated("authorPHIDs", phids),
                  Constraint("createdStart"), strftime_s(Since)),
           Constraint("createdEnd"), strftime_s(Until))
\* The dict DifferentialsReviewed.fetch builds.
reviewed_data(phids) ==
    SetKey(SetKey(Enumerated("reviewerPHIDs", phids),
                  Constraint("modifiedStart"), strftime_s(Since)),
           Constraint("modifiedEnd"), strftime_s(Until))

\* The keyword arguments search_diffs accepts.
search_diffs_parameters ==
    {"verbose", "since", "until", "author_phids", "reviewer_phids"}
\* The call search_diffs(data_dict=d, verbose=v) made by the two fetches:
\* Python binds the keywords to the parameters before the body runs.
search_diffs_keywords(d, v) ==
    LET kwargs == [data_dict |-> d, verbose |-> v]
        unexpected == DOMAIN kwargs \ search_diffs_parameters
    IN  IF unexpected # {}
        THEN [raised |-> TRUE, kwargs |-> kwargs,
              error |-> Exception("TypeError",
                  <<"search_diffs() got an unexpected keyword argument ",
                    CHOOSE k \in unexpected : TRUE>>)]
        ELSE [raised |-> FALSE, kwargs |-> kwargs, error |-> NoError]

\* The rest of a fetch of the report r once login_phids has given phids:
\* the dict is built and the call of search_diffs fails to bind.
FetchSearch(r, phids) ==
    LET call == search_diffs_keywords(
                    IF r = "created" THEN created_data(phids) ELSE reviewed_data(phids),
                    OptionsVerbose)
    IN  /\ call.raised
        /\ Raise(call.error)
        /\ args' = call.kwargs
        /\ UNCHANGED <<received, pageCount, reqCount, stats>>

FetchName(r) ==
    IF r = "created" THEN "DifferentialsCreated.fetch" ELSE "DifferentialsReviewed.fetch"
ReportOf(o) ==
    IF o = "DifferentialsCreated.fetch" THEN "created"
    ELSE IF o = "DifferentialsReviewed.fetch" THEN "reviewed"
    ELSE "commented"

\* fetch() of DifferentialsCreated (r = "created") or DifferentialsReviewed
\* (r = "reviewed") is called: login_phids is read for the for loop.
StatsFetch(r) ==
    /\ MayFetch(r)
    /\ fetched' = fetched \cup {r}
    /\ Callable
    /\ op' = FetchName(r)
    /\ lastReq' = NoRequest
    /\ lastResp' = NoResponse
    /\ IF Cached
       THEN FetchSearch(r, _login_phids)
       ELSE /\ Pending
            /\ args' = NoArgs
            /\ Call_get_all_pages(UserSearch, Some(login_phids_data(logins)))
            /\ pc' = "fetch_login_phids"
            /\ UNCHANGED <<diffs, idx, commented_diffs, closed_diffs, stats>>
    /\ UNCHANGED <<logins, _login_phids, resolved>>

DifferentialsCreated_fetch == StatsFetch("created")
DifferentialsReviewed_fetch == StatsFetch("reviewed")

\* login_phids returns into the for loop of the fetch.
fetch_login_phids_return ==
    /\ pc = "fetch_login_phids" /\ fstate = "returned"
    /\ _login_phids' = phids_of(results)
    /\ resolved' = TRUE
    /\ FetchSearch(ReportOf(op), _login_phids')
    /\ UNCHANGED <<logins, op, fetched, lastReq, lastResp>>

\* ------------------------------------------------------------------ system
Init ==
    /\ logins \in LoginLists
    /\ _login_phids = <<>>
    /\ op = "none" /\ args = NoArgs /\ pc = "none"
    /\ url = <<>> /\ data_dict = EmptyDict /\ results = <<>> /\ fstate = "none"
    /\ diffs = <<>> /\ idx = 0 /\ commented_diffs = <<>> /\ closed_diffs = <<>>
    /\ stats = [r \in Reports |-> <<>>]
    /\ fetched = {}
    /\ outcome = "none" /\ ret = None /\ error = NoError
    /\ lastReq = NoRequest /\ received = <<>> /\ pageCount = 0 /\ reqCount = 0
    /\ resolved = FALSE
    /\ lastResp = NoResponse

Next ==
    \/ GetPage
    \/ get_all_pages_call
    \/ get_all_pages_return
    \/ login_phids_call
    \/ login_phids_return
    \/ search_diffs_call
    \/ search_diffs_return
    \/ search_transactions_call
    \/ search_transactions_return
    \/ DifferentialsCommented_fetch
    \/ commented_login_phids_1_return
    \/ commented_search_diffs_return
    \/ commented_login_phids_2_return
    \/ commented_search_transactions_return
    \/ DifferentialsCreated_fetch
    \/ DifferentialsReviewed_fetch
    \/ fetch_login_phids_return

Spec == Init /\ [][Next]_vars

\* ------------------------------------------- the methods of TransactionEvent
\* The epoch second of the local time tod seconds into the local day.
LocalInstant(day, tod) == day * DaySeconds - UtcOffset + tod
\* Times of a day: its first second, noon, its last second.
TimesOfDay == {0, DaySeconds \div 2, DaySeconds - 1}
\* Days from the one before since to the one after until.
EventDays == (Since - 1)..(Until + 1)
OptionalDays == {None} \cup {Some(d) : d \in Since..Until}
\* The raw type fields of events: null, empty, canonical and other strings.
RawTypes == {NULL, "", "comment", "inline", "close", "create", "status", "Comment"}
EventData(type, ts) == [type |-> type, dateModified |-> ts, authorPHID |-> "PHID-USER-A"]

\* What a call of a method that makes no request leaves as it is.
MethodFrame ==
    UNCHANGED <<logins, _login_phids, stats, fetched, received, pageCount,
                reqCount, resolved>>

\* TransactionEvent(data).is_in_date_range(since, until)
is_in_date_range_call ==
    \E day \in EventDays, tod \in TimesOfDay, since \in OptionalDays, until \in OptionalDays :
        LET event == TransactionEvent(EventData("comment", LocalInstant(day, tod)))
        IN  /\ Called("is_in_date_range",
                      [day |-> day, tod |-> tod, since |-> since, until |-> until])
            /\ Return(is_in_date_range(event, since, until))
            /\ MethodFrame

\* TransactionEvent(data).is_type(typ)
is_type_call ==
    \E raw \in RawTypes, typ \in EventType :
        LET event == TransactionEvent(EventData(raw, OnUntil))
        IN  /\ Called("is_type", [raw |-> raw, typ |-> typ])
            /\ Return(is_type(event, typ))
            /\ MethodFrame

EventNext ==
    \/ is_in_date_range_call
    \/ is_type_call

\* The methods of TransactionEvent called on events of every kind.
EventSpec == Init /\ [][EventNext]_vars

\* ------------------------------------------------------------- properties
\* A decoded body after which _get_all_pages is to stop.
LastPage(p) == "cursor" \notin DOMAIN p \/ p["cursor"].after = NULL
\* A request was posted, and answered, in the operation.
Requested == lastReq # NoRequest
\* The failures of one page, by what the server answered.
TransportFailed(resp) == resp.kind = "transport"
BadStatus(resp) == resp.kind = "http" /\ resp.status # 200
BadBody(resp) == resp.kind = "http" /\ resp.status = 200 /\ ~resp.body.parse
Decodable(resp) == resp.kind = "http" /\ resp.status = 200 /\ resp.body.parse
ApiError(resp) ==
    /\ Decodable(resp)
    /\ "error_info" \in DOMAIN resp.body.json
    /\ resp.body.json["error_info"] # NULL
NoErrorInfo(resp) == Decodable(resp) /\ "error_info" \notin DOMAIN resp.body.json
NoResult(resp) == Decodable(resp) /\ "result" \notin DOMAIN resp.body.json
PageFailed(resp) ==
    TransportFailed(resp) \/ BadStatus(resp) \/ BadBody(resp) \/ ApiError(resp)
    \/ NoResult(resp)

\* _get_page hands the answer to _get_all_pages, which finds a result in it.
Accepted(resp) ==
    /\ Decodable(resp)
    /\ "error_info" \in DOMAIN resp.body.json
    /\ resp.body.json["error_info"] = NULL
    /\ "result" \in DOMAIN resp.body.json

\* C1: when _get_all_pages leaves its loop after N >= 1 accepted pages, its
\* list is the records the server sent, those of page 1 in server order,
\* then those of page 2, and so on, and has as many elements as the pages
\* had records; the list a direct call returns is that list.
C1_AllPagesInOrder ==
    /\ fstate = "returned" =>
        /\ pageCount >= 1
        /\ results = received
    /\ fstate = "running" => results = received
    /\ op = "_get_all_pages" /\ outcome = "returned" =>
        /\ ret = Some(received)
        /\ Len(ret[1]) = Len(received)
\* A direct call has returned two records that came one per page.
C1_Witness ==
    /\ op = "_get_all_pages" /\ outcome = "returned"
    /\ pageCount = 2
    /\ Len(ServedRecords(lastResp)) = 1
    /\ Len(ret[1]) = 2

\* C2: the loop of _get_all_pages stops at the first accepted page that has
\* no cursor container or a null after, and goes on after any other: while
\* the loop runs no such page has come, when it is left the last answer was
\* one, and one request was posted per page.
C2_StopsAtLastPage ==
    /\ fstate = "running" /\ reqCount > 0 =>
        /\ Accepted(lastResp) /\ ~LastPage(lastResp.body.json)
        /\ reqCount = pageCount
    /\ fstate = "returned" =>
        /\ Accepted(lastResp) /\ LastPage(lastResp.body.json)
        /\ reqCount = pageCount
    /\ reqCount > 0 /\ Accepted(lastResp) /\ LastPage(lastResp.body.json) =>
        fstate # "running"
    /\ reqCount > 0 /\ Accepted(lastResp) /\ ~LastPage(lastResp.body.json) =>
        fstate = "running"
\* A fetch stopped at a first page without cursor container.
C2_Witness ==
    /\ fstate = "returned" /\ reqCount = 1
    /\ "cursor" \notin DOMAIN lastResp.body.json

\* C3: every request posted carries api.token and limit; the token is the
\* configured one unless the caller's dict had a token.
CallerSetToken ==
    /\ op = "_get_all_pages"
    /\ args.data_dict # None
    /\ K("api.token") \in DOMAIN args.data_dict[1]
C3_TokenAndLimit ==
    Requested =>
        /\ K("api.token") \in DOMAIN lastReq.data
        /\ K("limit") \in DOMAIN lastReq.data
        /\ ~CallerSetToken => lastReq.data[K("api.token")] = ConfigToken
\* The second page of a transaction search inside the commented report has
\* been requested.
C3_Witness ==
    /\ op = "DifferentialsCommented.fetch"
    /\ Requested /\ lastReq.url = TransactionSearch
    /\ reqCount = 2

C5_ApiError ==
    ApiError(lastResp) =>
        /\ outcome = "raised" /\ ret = None
        /\ error = Exception("RuntimeError",
               <<"Phabricator error encountered: ", lastResp.body.json["error_info"]>>)
        /\ reqCount = pageCount + 1
        /\ results = <<>> /\ fstate = "none"
\* A 200 answer had error_info and a result container with a record.
C5_Witness ==
    /\ ApiError(lastResp)
    /\ "result" \in DOMAIN lastResp.body.json
    /\ Len(lastResp.body.json["result"].data) = 1
    /\ outcome = "raised"

\* C6: once a page of a fetch has failed, the operation has raised, returns
\* no list, no loop is running, and no step from there posts a request of
\* that fetch: the failed page is not retried and no next page is asked.
C6_NoRetryNoPartial ==
    [][/\ PageFailed(lastResp') =>
            /\ outcome' = "raised" /\ ret' = None /\ error' # NoError
            /\ fstate' = "none" /\ results' = <<>>
            /\ stats' = stats
       /\ PageFailed(lastResp) =>
            /\ reqCount' # reqCount + 1
            /\ lastReq' \in {lastReq, NoRequest}]_vars
\* The transaction search for the second diff of the commented report has
\* failed at its second page.
C6_Witness ==
    /\ op = "DifferentialsCommented.fetch"
    /\ PageFailed(lastResp)
    /\ lastReq.url = TransactionSearch
    /\ reqCount = 2 /\ pageCount = 1
    /\ outcome = "raised"

\* A request is posted in the step.
Posts == reqCount' = reqCount + 1

\* C7: once login_phids has stored the result of a resolution, whatever list
\* that was, no later step posts a request to user.search.
LoginRead ==
    pc \in {"login_phids", "commented_login_phids_1", "commented_login_phids_2",
            "fetch_login_phids"}
C7_ResolvedOnce == [][resolved /\ Posts => ~(LoginRead /\ url = UserSearch)]_vars

\* C8: when the events of a diff of the author search have been fetched, the
\* diff is put on the commented list iff one of them is in [Since, Until]
\* by is_in_date_range and of type comment or inline; the entries for the
\* other diffs stay as they are, and the list is what stats becomes.
Qualifies(event) ==
    /\ is_in_date_range(event, Some(Since), Some(Until))
    /\ event._type \in {"comment", "inline"}
Without(list, diff) == SelectSeq(list, LAMBDA d : d # diff)
C8_CommentedIff ==
    [][pc = "commented_search_transactions" /\ fstate = "returned" =>
        LET diff == diffs[idx]
            events == search_transactions_result(results)
            after == IF pc' = "none" THEN stats'["commented"] ELSE commented_diffs'
        IN  /\ diff \notin Range(commented_diffs)
            /\ diff \in Range(after) <=> \E i \in 1..Len(events) : Qualifies(events[i])
            /\ Without(after, diff) = commented_diffs
            /\ pc' = "none" => outcome' = "returned" /\ idx = Len(diffs)]_vars
\* The report is made and holds a diff; the last diff searched had a close
\* event on Until as its only event in the window and is left out ...
C8_Witness ==
    /\ op = "DifferentialsCommented.fetch" /\ outcome = "returned"
    /\ stats["commented"] # <<>>
    /\ received # <<>>
    /\ \A i \in 1..Len(received) :
          received[i].type = "close" \/ received[i].dateModified = AfterUntil
    /\ \E i \in 1..Len(received) : received[i].type = "close"
    /\ lastReq.url = TransactionSearch
    /\ lastReq.data[K("objectIdentifier")] \notin {phid(d) : d \in Range(stats["commented"])}
\* ... or had an inline event dated on Until and no comment, and is kept.
C8_WitnessInline ==
    /\ op = "DifferentialsCommented.fetch" /\ outcome = "returned"
    /\ \E i \in 1..Len(received) :
          received[i].type = "inline" /\ fromtimestamp(received[i].dateModified) = Until
    /\ \A i \in 1..Len(received) : received[i].type # "comment"
    /\ lastReq.url = TransactionSearch
    /\ lastReq.data[K("objectIdentifier")] \in {phid(d) : d \in Range(stats["commented"])}

\* C9 (as claimed): a search_diffs called with reviewer_phids and a window
\* posts requests that carry one reviewerPHIDs constraint per PHID and the
\* modifiedStart / modifiedEnd window, and neither authorPHIDs constraints
\* nor createdStart / createdEnd.
ReviewerSearch ==
    /\ op = "search_diffs"
    /\ args.reviewer_phids # None /\ args.author_phids = None
    /\ args.since # None /\ args.until # None
C9_ReviewerConstraints ==
    ReviewerSearch /\ Requested =>
        LET d == lastReq.data
            phids == args.reviewer_phids[1]
        IN  /\ \A i \in 1..Len(phids) :
                /\ Indexed("reviewerPHIDs", i - 1) \in DOMAIN d
                /\ d[Indexed("reviewerPHIDs", i - 1)] = phids[i]
            /\ Constraint("modifiedStart") \in DOMAIN d
            /\ Constraint("modifiedEnd") \in DOMAIN d
            /\ \A k \in DOMAIN d : Len(k) = 3 => k[2] # "authorPHIDs"
            /\ Constraint("createdStart") \notin DOMAIN d
            /\ Constraint("createdEnd") \notin DOMAIN d

\* C10 (as claimed): a fetch of DifferentialsCreated or DifferentialsReviewed
\* whose requests were all answered well ends without error, having
\* searched the diffs and made stats the list the search returned.
AnsweredWell == ~PageFailed(lastResp) /\ ~NoErrorInfo(lastResp)
C10_FetchStoresSearch ==
    /\ op \in {"DifferentialsCreated.fetch", "DifferentialsReviewed.fetch"}
    /\ outcome # "pending"
    /\ AnsweredWell
    => /\ outcome = "returned"
       /\ lastReq.url = RevisionSearch
       /\ stats[ReportOf(op)] = search_diffs_result(received, OptionsVerbose)

\* C11 (as claimed): when the resolution of the logins gave no identifier,
\* the commented report made with that empty list is empty.
NoIdentifiers == resolved /\ _login_phids = <<>>
C11_EmptyIdsEmptyReport ==
    /\ op = "DifferentialsCommented.fetch" /\ outcome = "returned"
    /\ NoIdentifiers
    => stats["commented"] = <<>>

\* C12: is_in_date_range(since, until) is true exactly when the local day d
\* of the event's modification satisfies (since absent or d >= since) and
\* (until absent or d <= until), at every time of that day.
DateRangeCalled == op = "is_in_date_range" /\ outcome = "returned"
C12_DateRangeInclusive ==
    DateRangeCalled =>
        ret = Some(/\ (args.since = None \/ args.day >= args.since[1])
                   /\ (args.until = None \/ args.day <= args.until[1]))
\* An event of the last second of until is in [since, until].
C12_Witness ==
    /\ DateRangeCalled
    /\ args.day = Until /\ args.tod = DaySeconds - 1
    /\ args.since = Some(Since) /\ args.until = Some(Until)
    /\ ret = Some(TRUE)
\* ... and one of the first second of the day after is not, unless until is
\* absent.
C12_WitnessDayAfter ==
    /\ DateRangeCalled
    /\ args.day = Until + 1 /\ args.tod = 0
    /\ args.until = Some(Until)
    /\ ret = Some(FALSE)

\* C13: is_type(UNDEFINED) is true for a null and for an empty raw type and
\* false for any other; is_type of another kind is true exactly when the
\* raw type is the kind's value; so at most one kind matches an event.
TypeCalled == op = "is_type" /\ outcome = "returned"
C13_TypeMatch ==
    TypeCalled =>
        /\ args.typ = "" => ret = Some(args.raw \in {NULL, ""})
        /\ args.typ # "" => ret = Some(args.raw = args.typ)
        /\ ret = Some(TRUE) =>
              \A k \in EventType \ {args.typ} :
                  ~is_type(TransactionEvent(EventData(args.raw, OnUntil)), k)
\* An event with a null type is of the undefined kind.
C13_Witness ==
    /\ TypeCalled
    /\ args.raw = NULL /\ args.typ = UNDEFINED
    /\ ret = Some(TRUE)

\* C14 (as claimed): the limit of every request posted is at most
\* MAX_PAGE_SIZE, and is MAX_PAGE_SIZE when the caller's dict has no limit.
CallerSetLimit ==
    /\ op = "_get_all_pages"
    /\ args.data_dict # None
    /\ K("limit") \in DOMAIN args.data_dict[1]
C14_LimitAtMostMax ==
    Requested =>
        /\ lastReq.data[K("limit")] <= MAX_PAGE_SIZE
        /\ ~CallerSetLimit => lastReq.data[K("limit")] = MAX_PAGE_SIZE

\* C15: the first request of a fetch carries a null after, whatever the
\* caller's dict held, and every later one the after of the cursor of the
\* answer before it.
C15_CursorChain ==
    [][Posts =>
        lastReq'.data[K("after")] =
            IF reqCount = 0 THEN NULL ELSE lastResp.body.json["cursor"].after]_vars
\* The second request of a direct call whose dict came with an after of
\* the caller's carries the cursor of the first answer.
C15_Witness ==
    /\ op = "_get_all_pages"
    /\ args.data_dict = Some(K("after") :> "cursor-9")
    /\ reqCount = 2
    /\ lastReq.data[K("after")] = CursorTokens[1]

\* C16 (as claimed): the step that posts a request ends in the error the
\* answer is classified as, a transport failure before a status other than
\* 200, before an unparseable body, before a non-null error_info; for any
\* other answer _get_page returns the body, and the only error left to the
\* step is _get_all_pages' missing result.
C16_Classified ==
    [][Posts =>
        LET r == lastResp'
            failed(e) == outcome' = "raised" /\ error' = e
        IN  IF TransportFailed(r)
            THEN failed(Exception("ReportError",
                     <<"Phabricator search on ", lastReq'.url, " failed">>))
            ELSE IF BadStatus(r)
            THEN failed(Exception("RuntimeError",
                     <<"Phabricator request exited with status code ", r.status,
                       " rather than 200.">>))
            ELSE IF BadBody(r)
            THEN failed(Exception("ReportError",
                     <<"Phabricator failed to parse JSON response.">>))
            ELSE IF ApiError(r)
            THEN failed(Exception("RuntimeError",
                     <<"Phabricator error encountered: ", r.body.json["error_info"]>>))
            ELSE \/ outcome' # "raised"
                 \/ error' = Exception("ReportError",
                                 <<"Mising key Phabricator dict: result">>)]_vars

\* The number a decimal string denotes.
RECURSIVE Number(_)
Number(ds) ==
    IF ds = <<>> THEN 0 ELSE 10 * Number(SubSeq(ds, 1, Len(ds) - 1)) + ds[Len(ds)]

\* C17 (as claimed): the createdStart and createdEnd an author search over
\* [since, until] sends hold between them exactly the instants of the
\* days since..until, at every time of day.
AuthorSearch ==
    /\ op = "search_diffs" /\ Requested
    /\ args.author_phids # None /\ args.reviewer_phids = None
    /\ args.since # None /\ args.until # None
C17_WindowWholeDays ==
    AuthorSearch =>
        LET createdStart == Number(lastReq.data[Constraint("createdStart")])
            createdEnd == Number(lastReq.data[Constraint("createdEnd")])
        IN  \A day \in EventDays, tod \in TimesOfDay :
                LET created == LocalInstant(day, tod)
                IN  (args.since[1] <= day /\ day <= args.until[1])
                    <=> (createdStart <= created /\ created <= createdEnd)

\* C18 (as claimed): the commented list holds each diff of the author
\* search at most once, in the order of the search, while it is built and
\* when it has become the report.
NoDuplicates(s) == \A i, j \in 1..Len(s) : s[i] = s[j] => i = j
C18_EachDiffOnce ==
    /\ pc \in {"commented_login_phids_2", "commented_search_transactions"} =>
          commented_diffs = SelectSeq(diffs, LAMBDA d : d \in Range(commented_diffs))
    /\ op = "DifferentialsCommented.fetch" /\ outcome = "returned" =>
          NoDuplicates(stats["commented"])

\* The keys of the dict d that belong to the constraint family.
FamilyKeys(d, family) == {k \in DOMAIN d : Len(k) = 3 /\ k[2] = family}
\* d holds for the family exactly the indices 0..Len(xs)-1, the i-th with
\* the i-th element of xs.
Dense(d, family, xs) ==
    /\ FamilyKeys(d, family) = {Indexed(family, i) : i \in 0..(Len(xs) - 1)}
    /\ \A i \in 1..Len(xs) : d[Indexed(family, i - 1)] = xs[i]

\* C19: the user.search request of login_phids carries the logins under the
\* usernames indices 0..n-1, the i-th login at index i; the request of
\* search_transactions carries the given author PHIDs under the authorPHIDs
\* indices 0..m-1 (none when no list is given) and the diff's PHID as
\* objectIdentifier.
C19_DenseIndices ==
    /\ Requested /\ lastReq.url = UserSearch /\ op # "_get_all_pages" =>
          Dense(lastReq.data, "usernames", logins)
    /\ Requested /\ op = "search_transactions" =>
          /\ lastReq.data[K("objectIdentifier")] = args.diff_phid
          /\ Dense(lastReq.data, "authorPHIDs",
                   IF args.author_phids = None THEN <<>> ELSE args.author_phids[1])
    /\ Requested /\ pc = "commented_search_transactions" =>
          /\ lastReq.data[K("objectIdentifier")] = phid(diffs[idx])
          /\ Dense(lastReq.data, "authorPHIDs", _login_phids)
\* Two logins have been sent to user.search.
C19_Witness ==
    /\ op = "login_phids" /\ Requested
    /\ Len(logins) = 2
    /\ lastReq.data[Indexed("usernames", 1)] = logins[2]
\* Two author PHIDs have been sent to transaction.search.
C19_WitnessTransactions ==
    /\ op = "search_transactions" /\ Requested
    /\ args.author_phids # None
    /\ Cardinality(FamilyKeys(lastReq.data, "authorPHIDs")) = 2

\* C20: the first request of a fetch goes to the endpoint the fetch was
\* called with and carries the caller's dict; every later request has the
\* url of the one before and, after apart, the same dict: constraints,
\* api.token and limit.
Rest(d) == [k \in DOMAIN d \ {K("after")} |-> d[k]]
C20_OnlyAfterChanges ==
    [][Posts =>
        /\ lastReq'.url = url
        /\ \A k \in DOMAIN Rest(data_dict) : lastReq'.data[k] = data_dict[k]
        /\ reqCount >= 1 =>
              /\ lastReq'.url = lastReq.url
              /\ Rest(lastReq'.data) = Rest(lastReq.data)]_vars
\* The second page of the author search of the commented report has been
\* requested with the window of the first.
C20_Witness ==
    /\ op = "DifferentialsCommented.fetch"
    /\ lastReq.url = RevisionSearch /\ reqCount = 2
    /\ lastReq.data[K("after")] = CursorTokens[1]
    /\ Constraint("createdStart") \in DOMAIN lastReq.data

====
